---- MODULE Spec2Model ----
(***************************************************************************)
(* Model of the cryptographic primitives layer of s390-tools (rust/pv):    *)
(* rust/pv/src/crypto.rs.  The functions of crypto.rs are modelled as      *)
(* actions; the OpenSSL provider they call is modelled by small byte-level *)
(* stand-ins that keep the structure the wrappers rely on (a stream cipher *)
(* with an authentication tag, a commutative key agreement, an order       *)
(* sensitive digest, randomised signatures with a DER frame for EC).       *)
(***************************************************************************)
EXTENDS Integers, Sequences, FiniteSets, TLC

\* ------------------------------------------------------------------ bounds
\* Longest aad / plaintext / message drawn as an input.
MaxLen == 2

\* Most calls one thread makes.
MaxCalls == 2

\* Number of TemporaryDirectory::with_prefix calls.
MaxDirs == 3

\* Most add-secret requests handed to one secret_store_hash call.
MaxBlobs == 2

\* ------------------------------------------------------- program constants
AES_256_GCM_TAG_SIZE == 16
REQUEST_TAG_SIZE == 16
SHA_256_HASH_SIZE == 32
AES_256_GCM_KEY_SIZE == 32
AES_256_XTS_KEY_SIZE == 64

\* ------------------------------------------------------------ byte helpers
Byte == 0..255

RECURSIVE BitXor(_, _, _)
BitXor(a, b, n) ==
    IF n = 0 THEN 0
    ELSE (((a % 2) + (b % 2)) % 2) + 2 * BitXor(a \div 2, b \div 2, n - 1)

Xor8(a, b) == BitXor(a, b, 8)

RECURSIVE Pow2(_)
Pow2(k) == IF k = 0 THEN 1 ELSE 2 * Pow2(k - 1)

\* Flip bit k (0..7) of byte b.
FlipBit(b, k) == Xor8(b, Pow2(k))

\* s with bit k of its byte at 0-based position pos flipped.
FlipAt(s, pos, k) == [s EXCEPT ![pos + 1] = FlipBit(s[pos + 1], k)]

RECURSIVE SumSeq(_)
SumSeq(s) == IF s = <<>> THEN 0 ELSE s[1] + SumSeq(Tail(s))

\* Sum of (2i+1+2*off) * s[i]: every weight is odd, so a one-bit change of any
\* byte changes the sum modulo 256.
RECURSIVE OddWeighted(_, _)
OddWeighted(s, off) ==
    IF s = <<>> THEN 0
    ELSE (2 * off + 1) * s[1] + OddWeighted(Tail(s), off + 1)

BoundedSeq(S, n) == UNION {[1..k -> S] : k \in 0..n}

Fill(b, n) == [i \in 1..n |-> b]

\* A Rust Range<usize>: half open, 0-based.
Range(s, e) == [start |-> s, end |-> e]
Slice(buf, r) == SubSeq(buf, r.start + 1, r.end)

\* -------------------------------------------------------------- SymKey
\* SymKey::Aes256 wraps 32 bytes, SymKey::Aes256Xts 64 bytes.
Aes256(seed) == [variant |-> "Aes256",
                 value |-> [i \in 1..AES_256_GCM_KEY_SIZE |-> (seed * i) % 256]]
Aes256Xts(seed) == [variant |-> "Aes256Xts",
                    value |-> [i \in 1..AES_256_XTS_KEY_SIZE |-> (seed * i) % 256]]

SymKeys == {Aes256(3), Aes256(5), Aes256Xts(7)}
Ivs == {<<>>, <<9>>, <<9, 4>>}
DataBytes == {0, 165}
Datas == BoundedSeq(DataBytes, MaxLen)
ShortDatas == BoundedSeq(DataBytes, 1)

\* ------------------------------------------------- provider: AES-256-GCM
\* The provider refuses an empty IV and raises an error detail for it.
ProviderIvOk(iv) == Len(iv) >= 1

KeyMix(kv) == SumSeq(kv) % 256

KeyStream(kv, iv, i) == (7 * KeyMix(kv) + 13 * SumSeq(iv) + 29 * i + 1) % 256

\* Counter-mode stream cipher: an involution, output as long as the input.
GcmCrypt(kv, iv, data) ==
    [i \in 1..Len(data) |-> Xor8(data[i], KeyStream(kv, iv, i))]

GcmMac(kv, iv, aad, ct) ==
    (3 * KeyMix(kv) + 5 * SumSeq(iv) + OddWeighted(aad, 0)
       + OddWeighted(ct, Len(aad)) + 16 * Len(aad) + 64 * Len(ct) + 11) % 256

\* The tag the provider computes over (aad, ciphertext), n bytes of it.
GcmTag(kv, iv, aad, ct, n) ==
    [j \in 1..n |-> (GcmMac(kv, iv, aad, ct) + 17 * (j - 1)) % 256]

\* openssl::symm::encrypt_aead: the ciphertext and the filled tag buffer, or
\* an ErrorStack.
encrypt_aead(kv, iv, aad, data, taglen) ==
    IF ~ProviderIvOk(iv)
    THEN [ok |-> FALSE, errors |-> <<"invalid iv length">>]
    ELSE LET ct == GcmCrypt(kv, iv, data)
         IN [ok |-> TRUE, data |-> ct, tag |-> GcmTag(kv, iv, aad, ct, taglen)]

\* openssl::symm::decrypt_aead: the plaintext, or an ErrorStack.  A tag that
\* does not verify makes the final step fail without queuing an error detail.
decrypt_aead(kv, iv, aad, data, tag) ==
    IF ~ProviderIvOk(iv)
    THEN [ok |-> FALSE, errors |-> <<"invalid iv length">>]
    ELSE IF Len(tag) < 1 \/ Len(tag) > AES_256_GCM_TAG_SIZE
    THEN [ok |-> FALSE, errors |-> <<"invalid tag length">>]
    ELSE IF tag # GcmTag(kv, iv, aad, data, Len(tag))
    THEN [ok |-> FALSE, errors |-> <<>>]
    ELSE [ok |-> TRUE, data |-> GcmCrypt(kv, iv, data)]

\* ------------------------------------------------------- asymmetric keys
\* A PKey: its algorithm family (PKey::id), for EC its group, and its private
\* scalar.  Group 0 stands for "no group" (RSA, HMAC, DSA keys).
PKey(id, group, priv) == [id |-> id, group |-> group, priv |-> priv]

GroupPrime(g) == IF g = 1 THEN 257 ELSE 263
GroupGen(g) == IF g = 1 THEN 3 ELSE 5

RECURSIVE ModExp(_, _, _)
ModExp(b, e, m) == IF e = 0 THEN 1 ELSE (b * ModExp(b, e - 1, m)) % m

\* The public half of a key, as a PKeyRef<Public> holds it.
PublicOf(k) ==
    [id |-> k.id, group |-> k.group,
     pub |-> IF k.id = "EC" THEN ModExp(GroupGen(k.group), k.priv, GroupPrime(k.group))
             ELSE (k.priv * 3 + 1) % 256]

EcKeys == {PKey("EC", 1, 2), PKey("EC", 1, 5), PKey("EC", 2, 3), PKey("EC", 2, 4)}
RsaKeys == {PKey("RSA", 0, 11), PKey("RSA", 0, 13)}
PrivKeys == EcKeys \cup RsaKeys
OtherKeys == {PKey("HMAC", 0, 17), PKey("DSA", 0, 19)}
AllKeys == PrivKeys \cup OtherKeys

\* ------------------------------------------------ provider: key agreement
\* Deriver::new(k1): derive_init is supported for EC keys only.
DeriveCapable(k1) == k1.id = "EC"

\* Deriver::set_peer(k2): the peer must be a key of the same group.
PeerCompatible(k1, k2) == k2.id = "EC" /\ k2.group = k1.group

\* Deriver::derive_to_vec: the raw shared secret, two bytes big endian.
KeyAgreement(k1, k2) ==
    LET z == ModExp(k2.pub, k1.priv, GroupPrime(k1.group))
    IN <<z \div 256, z % 256>>

\* --------------------------------------------------------- provider: hash
DigestSize(alg) == IF alg = "sha256" THEN SHA_256_HASH_SIZE ELSE 64

RECURSIVE Absorb(_, _)
Absorb(acc, data) ==
    IF data = <<>> THEN acc
    ELSE Absorb((acc * 31 + data[1] + 7) % 65521, Tail(data))

\* An order-sensitive stand-in for the message digest alg of data.
Digest(alg, data) ==
    LET acc == Absorb(DigestSize(alg) + Len(data), data)
    IN [i \in 1..DigestSize(alg) |->
          IF i = 1 THEN acc % 256
          ELSE IF i = 2 THEN acc \div 256
          ELSE (acc + 37 * i) % 256]

\* --------------------------------------------------- provider: signatures
DigestAlgs == {"sha256", "sha512"}
Nonces == {1, 2}

\* What binds a signature to the key, the digest, the padding and the nonce.
\* Odd in the nonce, so that any one-bit change of the nonce byte changes it.
SigMask(pk, dgst, padding, nonce) ==
    (pk.pub + (IF dgst = "sha256" THEN 32 ELSE 64)
            + (IF padding = "PKCS1_PSS" THEN 128 ELSE 0) + 5 * nonce) % 256

\* The signature value: the nonce (ECDSA's k, the PSS salt), the message
\* bytes shifted by the mask, and a closing byte that binds the length.
SigCore(pk, dgst, padding, nonce, msg) ==
    LET c == SigMask(pk, dgst, padding, nonce)
    IN <<nonce>> \o [i \in 1..Len(msg) |-> (msg[i] + c) % 256]
                 \o <<(c + 3 * Len(msg)) % 256>>

\* An EC signature is a DER SEQUENCE: tag 0x30, length, content.
DerWrap(core) == <<48, Len(core)>> \o core
DerWellFormed(sig) == Len(sig) >= 2 /\ sig[1] = 48 /\ sig[2] = Len(sig) - 2
DerContent(sig) == SubSeq(sig, 3, Len(sig))

\* Signer::sign_oneshot_to_vec under the padding configured on the signer.
ProviderSign(k, dgst, padding, nonce, msg) ==
    LET core == SigCore(PublicOf(k), dgst, padding, nonce, msg)
    IN [ok |-> TRUE, sig |-> IF k.id = "EC" THEN DerWrap(core) ELSE core]

\* Whether the signature value core is one over msg.
CoreValid(pk, dgst, padding, msg, core) ==
    /\ Len(core) >= 2
    /\ core = SigCore(pk, dgst, padding, core[1], msg)

\* Verifier::verify / Verifier::verify_oneshot: Ok(true), Ok(false), or an
\* ErrorStack when the provider could not run the verification: an EC
\* signature that is not a well-formed DER SEQUENCE cannot be decoded.
ProviderVerify(pk, dgst, padding, msg, sig) ==
    IF pk.id = "EC"
    THEN IF ~DerWellFormed(sig)
         THEN [ok |-> FALSE, errors |-> <<"asn1 encoding">>]
         ELSE [ok |-> TRUE, valid |-> CoreValid(pk, dgst, padding, msg, DerContent(sig))]
    ELSE [ok |-> TRUE, valid |-> CoreValid(pk, dgst, padding, msg, sig)]

\* ------------------------------------------------------------------ state
VARIABLES
    encArgs,    \* arguments of the last encrypt_aes_gcm call
    encRes,     \* its Result<AesGcmResult>
    buf,        \* the framed buffer as the caller holds it (may be tampered)
    flipped,    \* the bit flipped in buf since encryption, if any
    decArgs,    \* arguments of the last decrypt_aes_gcm call
    decRes,     \* its Result<Confidential<Vec<u8>>>
    derLast,    \* the last derive_aes256_gcm_key call: arguments and outcome
    derPrev,    \* the call before it
    sigArgs,    \* arguments of the last sign_msg call
    sigRes,     \* its Result<Vec<u8>>
    wire,       \* the message and signature as the verifier receives them
    mutated,    \* the bit changed in wire since signing, if any
    verArgs,    \* arguments of the last verify_signature call
    verRes      \* its Result<bool>

aeadVars == <<encArgs, encRes, buf, flipped, decArgs, decRes>>
deriveVars == <<derLast, derPrev>>
signVars == <<sigArgs, sigRes, wire, mutated, verArgs, verRes>>

VARIABLES
    hmacArgs,   \* arguments of the last calculate_hmac call
    hmacRes     \* its Result<Vec<u8>>

hmacVars == <<hmacArgs, hmacRes>>

VARIABLES
    hashArgs,   \* arguments of the last secret_store_hash call
    hashRes,    \* its Result<DigestBytes>
    chkArgs,    \* arguments of the last secret_store_check call
    chkRes      \* its Result<CheckState<SecretStoreCheck>>

storeVars == <<hashArgs, hashRes, chkArgs, chkRes>>

VARIABLES
    tmpOwner,   \* per with_prefix call: what its caller holds
    tmpFs,      \* the directories that exist
    tmpRemoves, \* per directory: the results of the remove_dir_all calls on it
    tmpRet      \* per with_prefix call: what close() returned, None before

tmpVars == <<tmpOwner, tmpFs, tmpRemoves, tmpRet>>

VARIABLES
    errq,       \* per thread: the provider's thread-local error queue
    tpc,        \* per thread: the call it is in, None between calls
    tlast,      \* per thread: its last completed call and the outcome
    tprev,      \* per thread: how the call before the current one used the queue
    tcount      \* per thread: number of calls begun

threadVars == <<errq, tpc, tlast, tprev, tcount>>
extVars == <<hmacVars, storeVars, tmpVars, threadVars>>
vars == <<aeadVars, deriveVars, signVars, extVars>>

None == [kind |-> "None"]

\* --------------------------------------------------------- encrypt_aes_gcm
\* Variant of FrameBuffer: the tag range is computed from the aad length alone.
FrameBufferTagAfterAad(aad, encr, tag) ==
    [buf |-> aad \o encr \o tag,
     aad_range |-> Range(0, Len(aad)),
     encr_range |-> Range(Len(aad), Len(aad) + Len(encr)),
     tag_range |-> Range(Len(aad), Len(aad) + Len(tag))]

\* Variant of FrameBuffer: the tag is copied in front of the ciphertext.
FrameBufferTagFirst(aad, encr, tag) ==
    [buf |-> aad \o tag \o encr,
     aad_range |-> Range(0, Len(aad)),
     encr_range |-> Range(Len(aad), Len(aad) + Len(encr)),
     tag_range |-> Range(Len(aad) + Len(encr), Len(aad) + Len(encr) + Len(tag))]

\* The buffer and the three ranges encrypt_aes_gcm builds from the aad, the
\* provider's ciphertext and the tag.
FrameBuffer(aad, encr, tag) ==
    [buf |-> aad \o encr \o tag,
     aad_range |-> Range(0, Len(aad)),
     encr_range |-> Range(Len(aad), Len(aad) + Len(encr)),
     tag_range |-> Range(Len(aad) + Len(encr), Len(aad) + Len(encr) + Len(tag))]

\* Variant of encrypt_aes_gcm: every key variant is handed to the cipher.
encrypt_aes_gcm_any_key(key, iv, aad, conf) ==
    LET prov == encrypt_aead(key.value, iv, aad, conf, AES_256_GCM_TAG_SIZE)
    IN IF ~prov.ok
       THEN [kind |-> "Err", err |-> "Crypto", detail |-> prov.errors,
             provider |-> <<"aes_256_gcm">>]
       ELSE LET f == FrameBuffer(aad, prov.data, prov.tag)
            IN [kind |-> "Ok", buf |-> f.buf, aad_range |-> f.aad_range,
                encr_range |-> f.encr_range, tag_range |-> f.tag_range,
                provider |-> <<"aes_256_gcm">>]

\* Result of encrypt_aes_gcm(key, iv, aad, conf); provider lists the ciphers
\* the provider was invoked with.
encrypt_aes_gcm(key, iv, aad, conf) ==
    IF key.variant = "Aes256"
    THEN LET prov == encrypt_aead(key.value, iv, aad, conf, AES_256_GCM_TAG_SIZE)
         IN IF ~prov.ok
            THEN [kind |-> "Err", err |-> "Crypto", detail |-> prov.errors,
                  provider |-> <<"aes_256_gcm">>]
            ELSE LET f == FrameBuffer(aad, prov.data, prov.tag)
                 IN [kind |-> "Ok", buf |-> f.buf, aad_range |-> f.aad_range,
                     encr_range |-> f.encr_range, tag_range |-> f.tag_range,
                     provider |-> <<"aes_256_gcm">>]
    ELSE [kind |-> "Err", err |-> "NoAeadKey", detail |-> <<>>,
          provider |-> <<>>]

\* --------------------------------------------------------- decrypt_aes_gcm
\* Variant of ClassifyDecryptError: every provider failure is passed on as is.
ClassifyAlwaysCrypto(ssl_err) == [err |-> "Crypto", detail |-> ssl_err]

\* Variant of ClassifyDecryptError: the test of the error stack is inverted.
ClassifyInverted(ssl_err) ==
    IF ssl_err # <<>>
    THEN [err |-> "GcmTagMismatch", detail |-> <<>>]
    ELSE [err |-> "Crypto", detail |-> ssl_err]

\* The map_err closure: an empty error stack is taken for a tag mismatch.
ClassifyDecryptError(ssl_err) ==
    IF ssl_err = <<>>
    THEN [err |-> "GcmTagMismatch", detail |-> <<>>]
    ELSE [err |-> "Crypto", detail |-> ssl_err]

\* Result of decrypt_aes_gcm(key, iv, aad, encr, tag); provAnswer is the
\* provider's own answer when it was invoked.
decrypt_aes_gcm(key, iv, aad, encr, tag) ==
    IF key.variant = "Aes256"
    THEN LET prov == decrypt_aead(key.value, iv, aad, encr, tag)
         IN IF prov.ok
            THEN [kind |-> "Ok", value |-> prov.data, holder |-> "Confidential",
                  provider |-> <<"aes_256_gcm">>, provAnswer |-> prov]
            ELSE LET e == ClassifyDecryptError(prov.errors)
                 IN [kind |-> "Err", err |-> e.err, detail |-> e.detail,
                     provider |-> <<"aes_256_gcm">>, provAnswer |-> prov]
    ELSE [kind |-> "Err", err |-> "NoAeadKey", detail |-> <<>>,
          provider |-> <<>>, provAnswer |-> None]

\* --------------------------------------------------- derive_aes256_gcm_key
\* hash(t, data): the provider's digest, or its error.
hash(t, data, provOk) ==
    IF provOk THEN [ok |-> TRUE, digest |-> Digest(t, data)]
    ELSE [ok |-> FALSE, errors |-> <<"digest failure">>]

\* A Vec<u8>: its bytes and the capacity of its allocation.
Vec(bytes, cap) == [bytes |-> bytes, cap |-> cap]

\* Vec::extend: the bytes are appended; an allocation too small for them is
\* grown, in place or (moved) by allocating anew, copying and releasing the
\* old block as it is.  released lists the contents of the blocks given back
\* to the allocator.
VecExtend(v, items, moved) ==
    IF Len(v.bytes) + Len(items) <= v.cap
    THEN [vec |-> Vec(v.bytes \o items, v.cap), released |-> <<>>]
    ELSE [vec |-> Vec(v.bytes \o items, Len(v.bytes) + Len(items)),
          released |-> IF moved THEN <<v.bytes>> ELSE <<>>]

\* Dropping a Confidential<Vec<u8>>: the bytes are zeroed, then released.
DropConfidential(bytes) == Fill(0, Len(bytes))

\* Variant of ExtendCounter: the counter is put in front of the secret.
ExtendCounterInFront(key, moved) ==
    LET e == VecExtend(key, <<0, 0, 0, 1>>, moved)
    IN [vec |-> Vec(<<0, 0, 0, 1>> \o key.bytes, e.vec.cap), released |-> e.released]

\* key.extend([0, 0, 0, 1])
ExtendCounter(key, moved) == VecExtend(key, <<0, 0, 0, 1>>, moved)

\* Variant of DerivePeer: the deriver is given the caller's own public key.
DerivePeerOwn(k1, k2) == PublicOf(k1)

\* der.set_peer(k2): the key the agreement is made with.
DerivePeer(k1, k2) == k2

\* derive_aes256_gcm_key(k1, k2).  moved: the allocator moves the vector when
\* it grows; hashOk: the provider computes the digest.  secret is the raw
\* agreement output, released the contents of the blocks released by the call.
derive_aes256_gcm_key(k1, k2, moved, hashOk) ==
    IF ~DeriveCapable(k1)
    THEN [kind |-> "Err", err |-> "Crypto", detail |-> <<"operation not supported">>,
          secret |-> <<>>, released |-> <<>>]
    ELSE IF ~PeerCompatible(k1, DerivePeer(k1, k2))
    THEN [kind |-> "Err", err |-> "Crypto", detail |-> <<"different parameters">>,
          secret |-> <<>>, released |-> <<>>]
    ELSE LET raw == KeyAgreement(k1, DerivePeer(k1, k2))
             key == Vec(raw, Len(raw))
             ext == ExtendCounter(key, moved)
             secr == ext.vec.bytes
             h == hash("sha256", secr, hashOk)
             released == ext.released \o <<DropConfidential(secr)>>
         IN IF ~h.ok
            THEN [kind |-> "Err", err |-> "Crypto", detail |-> h.errors,
                  secret |-> raw, released |-> released]
            ELSE [kind |-> "Ok", key |-> h.digest, holder |-> "Confidential",
                  secret |-> raw, released |-> released]

\* ------------------------------------------------- sign_msg, verify_signature
\* The padding sign_msg configures on the signer for a key family.
SignPadding(id) == IF id = "RSA" THEN "PKCS1_PSS" ELSE "default"

\* Variant of VerifyPadding: no padding is configured on the verifier.
VerifyPaddingUnset(id) == "default"

\* The padding verify_signature configures on the verifier for a key family.
VerifyPadding(id) == IF id = "RSA" THEN "PKCS1_PSS" ELSE "default"

\* Variant of sign_msg: a key of any other family is signed with like an EC key.
sign_msg_fallthrough(skey, dgst, msg, nonce) ==
    LET prov == ProviderSign(skey, dgst, SignPadding(skey.id), nonce, msg)
    IN [kind |-> "Ok", value |-> prov.sig, provider |-> <<skey.id>>]

\* sign_msg(skey, dgst, msg); nonce is the randomness the provider draws.
sign_msg(skey, dgst, msg, nonce) ==
    IF skey.id \in {"EC", "RSA"}
    THEN LET prov == ProviderSign(skey, dgst, SignPadding(skey.id), nonce, msg)
         IN IF prov.ok
            THEN [kind |-> "Ok", value |-> prov.sig, provider |-> <<skey.id>>]
            ELSE [kind |-> "Err", err |-> "Crypto", detail |-> prov.errors,
                  provider |-> <<skey.id>>]
    ELSE [kind |-> "Err", err |-> "UnsupportedSigningKey", detail |-> <<>>,
          provider |-> <<>>]

\* Variant of VerifyOutcome: a signature that does not validate is an error.
VerifyOutcomeStrict(prov) ==
    IF prov.ok /\ prov.valid
    THEN [kind |-> "Ok", value |-> TRUE]
    ELSE [kind |-> "Err", err |-> "Crypto",
          detail |-> IF prov.ok THEN <<>> ELSE prov.errors]

\* ctx.verify(sign).map_err(Error::Crypto): the provider's verdict is passed
\* on, its ErrorStack becomes Error::Crypto.
VerifyOutcome(prov) ==
    IF prov.ok
    THEN [kind |-> "Ok", value |-> prov.valid]
    ELSE [kind |-> "Err", err |-> "Crypto", detail |-> prov.errors]

\* verify_signature(skey, dgst, msg, sign); provAnswer is the provider's own
\* answer when it was invoked.
verify_signature(pk, dgst, msg, sign) ==
    IF pk.id \in {"EC", "RSA"}
    THEN LET prov == ProviderVerify(pk, dgst, VerifyPadding(pk.id), msg, sign)
             out == VerifyOutcome(prov)
         IN [kind |-> out.kind, out |-> out, provider |-> <<pk.id>>,
             provAnswer |-> prov]
    ELSE [kind |-> "Err",
          out |-> [kind |-> "Err", err |-> "UnsupportedVerificationKey", detail |-> <<>>],
          provider |-> <<>>, provAnswer |-> None]

\* ---------------------------------------------------------- calculate_hmac
HmacKeys == {PKey("HMAC", 0, 17), PKey("HMAC", 0, 23)}

\* Signer::new(dgst, hmac_key)?.sign_oneshot_to_vec(msg): the keyed hash of
\* msg under the key, or the provider's ErrorStack.
ProviderHmac(k, dgst, msg, provOk) ==
    IF provOk
    THEN [ok |-> TRUE, tag |-> Digest(dgst, <<k.priv>> \o msg \o <<k.priv>>)]
    ELSE [ok |-> FALSE, errors |-> <<"signer failure">>]

\* Variant of calculate_hmac: the key's type is not looked at.
calculate_hmac_any_key(hmac_key, dgst, msg, provOk) ==
    LET prov == ProviderHmac(hmac_key, dgst, msg, provOk)
    IN IF prov.ok
       THEN [kind |-> "Ok", value |-> prov.tag, provider |-> <<hmac_key.id>>]
       ELSE [kind |-> "Err", err |-> "Crypto", detail |-> prov.errors,
             provider |-> <<hmac_key.id>>]

\* calculate_hmac(hmac_key, dgst, msg); provOk: the provider computes the tag.
calculate_hmac(hmac_key, dgst, msg, provOk) ==
    IF hmac_key.id = "HMAC"
    THEN LET prov == ProviderHmac(hmac_key, dgst, msg, provOk)
         IN IF prov.ok
            THEN [kind |-> "Ok", value |-> prov.tag, provider |-> <<"HMAC">>]
            ELSE [kind |-> "Err", err |-> "Crypto", detail |-> prov.errors,
                  provider |-> <<"HMAC">>]
    ELSE [kind |-> "Err", err |-> "UnsupportedSigningKey", detail |-> <<>>,
          provider |-> <<>>]

\* ------------------------------------------ secret_store_hash, secret_store_check
\* The add-secret request files a caller may name, and what is in them: a
\* magic byte, a body, and the request tag in the last REQUEST_TAG_SIZE bytes.
Paths == {"a.bin", "b.bin", "short.bin", "gone.bin"}

FileContent(path) ==
    IF path = "a.bin" THEN <<97, 1, 2>> \o [i \in 1..REQUEST_TAG_SIZE |-> 100 + i]
    ELSE IF path = "b.bin" THEN <<97>> \o [i \in 1..REQUEST_TAG_SIZE |-> 200 - i]
    ELSE <<97, 5>>

\* pv::misc::read_file(path, "Add-secret request")
read_file(path) ==
    IF path = "gone.bin"
    THEN [ok |-> FALSE, err |-> "read: gone.bin"]
    ELSE [ok |-> TRUE, data |-> FileContent(path)]

\* AddSecretRequest::bin_tag(blob): the request's tag, or an error for a
\* blob that is no add-secret request.
bin_tag(blob) ==
    IF Len(blob) < 1 + REQUEST_TAG_SIZE \/ blob[1] # 97
    THEN [ok |-> FALSE, err |-> "bin_tag: no add-secret request"]
    ELSE [ok |-> TRUE,
          tag |-> SubSeq(blob, Len(blob) - REQUEST_TAG_SIZE + 1, Len(blob))]

\* The for loop of secret_store_hash: the tags appended in input order, up to
\* the first request that cannot be read or holds no tag.  reads lists the
\* files read.
RECURSIVE CollectTags(_, _, _)
CollectTags(asrcbs, requests, reads) ==
    IF asrcbs = <<>>
    THEN [ok |-> TRUE, requests |-> requests, reads |-> reads]
    ELSE LET asrcb == read_file(asrcbs[1])
         IN IF ~asrcb.ok
            THEN [ok |-> FALSE, err |-> asrcb.err, reads |-> reads]
            ELSE LET tag == bin_tag(asrcb.data)
                 IN IF ~tag.ok
                    THEN [ok |-> FALSE, err |-> tag.err,
                          reads |-> Append(reads, asrcbs[1])]
                    ELSE CollectTags(Tail(asrcbs), requests \o tag.tag,
                                     Append(reads, asrcbs[1]))

\* Variant of PushLocked: both flag values are encoded as 1.
PushLockedAlwaysOne(requests, locked) == Append(requests, 1)

\* requests.push(locked as u8)
PushLocked(requests, locked) == Append(requests, IF locked THEN 1 ELSE 0)

\* secret_store_hash(asrcbs, locked); hashOk: the provider computes the digest.
secret_store_hash(asrcbs, locked, hashOk) ==
    LET c == CollectTags(asrcbs, <<>>, <<>>)
    IN IF ~c.ok
       THEN [kind |-> "Err", err |-> c.err, reads |-> c.reads]
       ELSE IF ~hashOk
       THEN [kind |-> "Err", err |-> "Crypto", reads |-> c.reads]
       ELSE [kind |-> "Ok",
             digest |-> Digest("sha512", PushLocked(c.requests, locked)),
             reads |-> c.reads]

\* Option<T>
Some(v) == [kind |-> "Some", value |-> v]

\* att_res.add_fields.as_ref().and_then(|add| add.secret_store_hash())
AttStoreHash(att_res) ==
    IF att_res.add_fields = None THEN None
    ELSE att_res.add_fields.value.secret_store_hash

\* Variant of HashesDiffer: only the first byte of the two digests is compared.
HashesDifferFirstByte(calc, att) == calc[1] # att[1]

\* secret_store_hash(..)?.as_ref() != att_store_hash.as_ref()
HashesDiffer(calc, att) == calc # att

\* secret_store_check(opt, att_res).  reads lists the request files read,
\* attRead tells whether the attestation result was looked at.
secret_store_check(opt, att_res, hashOk) ==
    IF opt.secret_store_locked = None
    THEN [kind |-> "Ok", state |-> "None", reads |-> <<>>, attRead |-> FALSE]
    ELSE LET locked == opt.secret_store_locked.value
             att_store_hash == AttStoreHash(att_res)
         IN IF att_store_hash = None
            THEN [kind |-> "CheckFailed",
                  msg |-> "The Attestation response contains no secret-store-hash, but checking was enabled",
                  reads |-> <<>>, attRead |-> TRUE]
            ELSE LET h == secret_store_hash(opt.secret, locked, hashOk)
                 IN IF h.kind = "Err"
                    THEN [kind |-> "Err", err |-> h.err, reads |-> h.reads,
                          attRead |-> TRUE]
                    ELSE IF HashesDiffer(h.digest, att_store_hash.value)
                    THEN [kind |-> "CheckFailed",
                          msg |-> "The calculated secret-store-hash does not match with the provided hash",
                          reads |-> h.reads, attRead |-> TRUE]
                    ELSE [kind |-> "Ok", state |-> "Data",
                          add_secret_requests |-> opt.secret, locked |-> locked,
                          reads |-> h.reads, attRead |-> TRUE]

\* The attestation results a check is run against: no additional fields, no
\* secret-store hash, the hash of the requests under either flag, and that
\* hash with one bit of its first, a middle or its last byte changed.
AttResults(secret) ==
    LET c == CollectTags(secret, <<>>, <<>>)
        good == IF c.ok
                THEN {Digest("sha512", c.requests \o <<b>>) : b \in {0, 1}}
                ELSE {Digest("sha512", <<>>)}
        bad == {FlipAt(g, pos, 0) : g \in good, pos \in {0, 31, 63}}
    IN {[add_fields |-> None], [add_fields |-> Some([secret_store_hash |-> None])]}
         \cup {[add_fields |-> Some([secret_store_hash |-> Some(h)])] :
                  h \in good \cup bad}

\* ------------------------------------------------------- TemporaryDirectory
\* The with_prefix calls; mkdtemp gives call i the fresh directory name i.
Calls == 1..MaxDirs

\* PathBuf::new(): the empty path, which names no directory.
EmptyPath == 0

\* mkdtemp(template): the created directory, or the OS error.
mkdtemp(i, osOk) ==
    IF osOk THEN [ok |-> TRUE, path |-> i] ELSE [ok |-> FALSE, err |-> "io::Error"]

\* TemporaryDirectory::with_prefix(prefix): Ok(Self { path }) or mkdtemp's error.
\* live tells that the value's destructor is still to run.
with_prefix(i, osOk) ==
    LET temp_dir == mkdtemp(i, osOk)
    IN IF temp_dir.ok
       THEN [kind |-> "Ok", self |-> [path |-> temp_dir.path, live |-> TRUE]]
       ELSE [kind |-> "Err", err |-> temp_dir.err]

\* std::fs::remove_dir_all(path) on file system fs; osOk: the OS removes an
\* existing directory.
remove_dir_all(fs, path, osOk) ==
    IF path \in fs /\ osOk
    THEN [ret |-> "Ok", fs |-> fs \ {path}]
    ELSE [ret |-> "Err", fs |-> fs]

\* Variant of forget: the value is left as it was and stays subject to drop.
forget_nothing(self) == self

\* TemporaryDirectory::forget(self): the path is replaced by the empty one and
\* the value is forgotten, so that no destructor runs for it.
forget(self) == [path |-> EmptyPath, live |-> FALSE]

\* Drop for TemporaryDirectory, run for a value whose destructor is still to
\* run: the removal result is discarded.  log: the removal results so far.
drop(self, fs, log, osOk) ==
    IF self.live
    THEN LET rm == remove_dir_all(fs, self.path, osOk)
         IN [fs |-> rm.fs,
             log |-> IF self.path \in Calls
                     THEN [log EXCEPT ![self.path] = Append(@, rm.ret)]
                     ELSE log]
    ELSE [fs |-> fs, log |-> log]

\* TemporaryDirectory::close(self): remove, forget, return the removal result;
\* self, moved into forget, goes out of scope as forget left it.
close(self, fs, log, osOk, osOk2) ==
    LET rm == remove_dir_all(fs, self.path, osOk)
        log1 == [log EXCEPT ![self.path] = Append(@, rm.ret)]
        after == drop(forget(self), rm.fs, log1, osOk2)
    IN [ret |-> rm.ret, fs |-> after.fs, log |-> after.log]

\* ------------------------------------------- calls on independent threads
Threads == {1, 2}

\* The arguments the threads call the operations with: a frame encrypted under
\* an AES-256 key and a message signed under an RSA key, as made and as changed.
TKey == Aes256(3)
TFrame == encrypt_aes_gcm(TKey, <<9>>, <<0>>, <<165>>)
TEncr == Slice(TFrame.buf, TFrame.encr_range)
TTag == Slice(TFrame.buf, TFrame.tag_range)
TRsa == PKey("RSA", 0, 11)
TSig == sign_msg(TRsa, "sha256", <<165>>, 1).value

DecryptCall(key, iv, tag) ==
    [op |-> "decrypt", key |-> key, iv |-> iv, aad |-> <<0>>, encr |-> TEncr,
     tag |-> tag]
VerifyCall(pk, msg, sign) ==
    [op |-> "verify", skey |-> pk, dgst |-> "sha256", msg |-> msg, sign |-> sign]

ThreadCalls ==
    {DecryptCall(TKey, <<9>>, TTag), DecryptCall(TKey, <<9>>, FlipAt(TTag, 0, 0)),
     DecryptCall(TKey, <<>>, TTag), DecryptCall(Aes256Xts(7), <<9>>, TTag),
     VerifyCall(PublicOf(TRsa), <<165>>, TSig),
     VerifyCall(PublicOf(TRsa), <<0>>, TSig),
     VerifyCall(PublicOf(PKey("EC", 1, 2)), <<165>>, <<48, 9>>),
     [op |-> "encrypt", key |-> TKey, iv |-> <<>>, aad |-> <<0>>, conf |-> <<165>>],
     [op |-> "sign", skey |-> TRsa, dgst |-> "sha256", msg |-> <<165>>, nonce |-> 1],
     [op |-> "hmac", hmac_key |-> PKey("HMAC", 0, 17), dgst |-> "sha512",
      msg |-> <<165>>, provOk |-> FALSE],
     [op |-> "hash", t |-> "sha256", data |-> <<165>>, provOk |-> TRUE],
     [op |-> "derive", k1 |-> PKey("EC", 1, 2), k2 |-> PublicOf(PKey("EC", 2, 3)),
      moved |-> FALSE, hashOk |-> TRUE]}

\* A Result as its caller sees it: the value, or the error and its detail.
Returned(r, value) ==
    IF r.kind = "Ok" THEN [kind |-> "Ok", value |-> value]
    ELSE [kind |-> "Err", err |-> r.err, detail |-> r.detail]

\* What the operation returns for the arguments of call c.
CallResult(c) ==
    CASE c.op = "decrypt" ->
            LET r == decrypt_aes_gcm(c.key, c.iv, c.aad, c.encr, c.tag)
            IN Returned(r, IF r.kind = "Ok" THEN r.value ELSE <<>>)
      [] c.op = "encrypt" ->
            LET r == encrypt_aes_gcm(c.key, c.iv, c.aad, c.conf)
            IN Returned(r, IF r.kind = "Ok" THEN r.buf ELSE <<>>)
      [] c.op = "sign" ->
            LET r == sign_msg(c.skey, c.dgst, c.msg, c.nonce)
            IN Returned(r, IF r.kind = "Ok" THEN r.value ELSE <<>>)
      [] c.op = "verify" -> verify_signature(c.skey, c.dgst, c.msg, c.sign).out
      [] c.op = "hmac" ->
            LET r == calculate_hmac(c.hmac_key, c.dgst, c.msg, c.provOk)
            IN Returned(r, IF r.kind = "Ok" THEN r.value ELSE <<>>)
      [] c.op = "hash" ->
            LET r == hash(c.t, c.data, c.provOk)
            IN IF r.ok THEN [kind |-> "Ok", value |-> r.digest]
               ELSE [kind |-> "Err", err |-> "Crypto", detail |-> r.errors]
      [] c.op = "derive" ->
            LET r == derive_aes256_gcm_key(c.k1, c.k2, c.moved, c.hashOk)
            IN Returned(r, IF r.kind = "Ok" THEN r.key ELSE <<>>)

\* The provider call of c failed: the binding returns the thread's error queue
\* as the ErrorStack and leaves the queue empty.
ProviderFailed(c) ==
    LET r == CallResult(c)
    IN r.kind = "Err" /\ r.err \in {"Crypto", "GcmTagMismatch"}

\* The verifier of c answered 0: the signature does not validate.
VerifierSaidNo(c) ==
    LET r == CallResult(c)
    IN c.op = "verify" /\ r.kind = "Ok" /\ ~r.value

\* The error details the provider queues on the calling thread during c.
ProviderQueues(c) ==
    IF ProviderFailed(c) THEN CallResult(c).detail
    ELSE IF VerifierSaidNo(c) /\ c.skey.id = "RSA" THEN <<"bad signature">>
    ELSE <<>>

\* How call c uses the thread's queue: its provider call failed, its verifier
\* answered 0, or neither.
QueueUse(c) ==
    IF ProviderFailed(c) THEN "failed"
    ELSE IF VerifierSaidNo(c) THEN "refused"
    ELSE "clean"

\* Variant of VerifierDiscards: the queue is left as the provider filled it.
VerifierKeeps(queue) == queue

\* ctx.verify / ctx.verify_oneshot answering Ok(false): the binding discards
\* the error queue.
VerifierDiscards(queue) == <<>>

\* The thread's error queue when call c returns, from the queue at that point.
QueueAfter(c, queue) ==
    IF ProviderFailed(c) THEN <<>>
    ELSE IF VerifierSaidNo(c) THEN VerifierDiscards(queue)
    ELSE queue

\* What call c returns when the binding reads ErrorStack stack off the
\* thread's queue: decrypt_aes_gcm classifies it, the other operations wrap it
\* in Error::Crypto.
CallOutcome(c, stack) ==
    IF ProviderFailed(c)
    THEN IF c.op = "decrypt"
         THEN LET e == ClassifyDecryptError(stack)
              IN [kind |-> "Err", err |-> e.err, detail |-> e.detail]
         ELSE [kind |-> "Err", err |-> "Crypto", detail |-> stack]
    ELSE CallResult(c)

\* ----------------------------------------------------------------- actions
Init ==
    /\ encArgs = None
    /\ encRes = None
    /\ buf = <<>>
    /\ flipped = None
    /\ decArgs = None
    /\ decRes = None
    /\ derLast = None
    /\ derPrev = None
    /\ sigArgs = None
    /\ sigRes = None
    /\ wire = None
    /\ mutated = None
    /\ verArgs = None
    /\ verRes = None
    /\ hmacArgs = None
    /\ hmacRes = None
    /\ hashArgs = None
    /\ hashRes = None
    /\ chkArgs = None
    /\ chkRes = None
    /\ tmpOwner = [i \in Calls |-> None]
    /\ tmpFs = {}
    /\ tmpRemoves = [i \in Calls |-> <<>>]
    /\ tmpRet = [i \in Calls |-> None]
    /\ errq = [t \in Threads |-> <<>>]
    /\ tpc = [t \in Threads |-> None]
    /\ tlast = [t \in Threads |-> None]
    /\ tprev = [t \in Threads |-> "none"]
    /\ tcount = [t \in Threads |-> 0]

\* A caller encrypts: encrypt_aes_gcm(key, iv, aad, conf).
Encrypt ==
    \E key \in SymKeys, iv \in Ivs, aad \in Datas, conf \in Datas :
        LET res == encrypt_aes_gcm(key, iv, aad, conf)
        IN /\ encArgs = None
           /\ decArgs = None
           /\ encArgs' = [kind |-> "Args", key |-> key, iv |-> iv,
                          aad |-> aad, conf |-> conf]
           /\ encRes' = res
           /\ buf' = IF res.kind = "Ok" THEN res.buf ELSE <<>>
           /\ UNCHANGED <<flipped, decArgs, decRes, deriveVars, signVars, extVars>>

\* The framed buffer is altered in transit: one bit of the ciphertext or tag
\* segment flips.
Tamper ==
    /\ encRes.kind = "Ok"
    /\ flipped = None
    /\ decArgs = None
    /\ \E pos \in encRes.encr_range.start..(encRes.tag_range.end - 1), bit \in 0..7 :
          /\ buf' = FlipAt(buf, pos, bit)
          /\ flipped' = [kind |-> "Flip", pos |-> pos, bit |-> bit]
    /\ UNCHANGED <<encArgs, encRes, decArgs, decRes, deriveVars, signVars, extVars>>

\* The caller decrypts the segments sliced out of the buffer with the ranges
\* of the encryption result, under the same key and iv.
DecryptSliced ==
    /\ encRes.kind = "Ok"
    /\ decArgs = None
    /\ LET aad == Slice(buf, encRes.aad_range)
           encr == Slice(buf, encRes.encr_range)
           tag == Slice(buf, encRes.tag_range)
       IN /\ decArgs' = [kind |-> "Sliced", key |-> encArgs.key, iv |-> encArgs.iv,
                         aad |-> aad, encr |-> encr, tag |-> tag]
          /\ decRes' = decrypt_aes_gcm(encArgs.key, encArgs.iv, aad, encr, tag)
    /\ UNCHANGED <<encArgs, encRes, buf, flipped, deriveVars, signVars, extVars>>

\* A caller decrypts segments of its own making, with the key it holds.
DecryptDirect ==
    /\ encArgs = None \/ encRes.kind = "Err"
    /\ decArgs = None
    /\ \E key \in (IF encArgs = None THEN SymKeys ELSE {encArgs.key}),
          iv \in Ivs, aad \in ShortDatas, encr \in ShortDatas,
          tag \in {<<>>, Fill(255, AES_256_GCM_TAG_SIZE),
                   Fill(0, AES_256_GCM_TAG_SIZE + 1)} :
          /\ decArgs' = [kind |-> "Direct", key |-> key, iv |-> iv,
                         aad |-> aad, encr |-> encr, tag |-> tag]
          /\ decRes' = decrypt_aes_gcm(key, iv, aad, encr, tag)
    /\ UNCHANGED <<encArgs, encRes, buf, flipped, deriveVars, signVars, extVars>>

NextAead == Encrypt \/ Tamper \/ DecryptSliced \/ DecryptDirect

SpecAead == Init /\ [][NextAead]_vars

\* A caller derives a key: derive_aes256_gcm_key(k1, k2).
Derive ==
    \E k1 \in PrivKeys, peer \in PrivKeys, moved \in BOOLEAN, hashOk \in BOOLEAN :
        /\ derPrev' = derLast
        /\ derLast' = [kind |-> "Call", k1 |-> k1, k2 |-> PublicOf(peer),
                       res |-> derive_aes256_gcm_key(k1, PublicOf(peer), moved, hashOk)]
        /\ UNCHANGED <<aeadVars, signVars, extVars>>

NextDerive == Derive

SpecDerive == Init /\ [][NextDerive]_vars

\* A caller signs: sign_msg(skey, dgst, msg).
Sign ==
    \E skey \in AllKeys, dgst \in DigestAlgs, msg \in Datas, nonce \in Nonces :
        LET res == sign_msg(skey, dgst, msg, nonce)
        IN /\ sigArgs = None
           /\ verArgs = None
           /\ sigArgs' = [kind |-> "Args", skey |-> skey, dgst |-> dgst, msg |-> msg]
           /\ sigRes' = res
           /\ wire' = IF res.kind = "Ok"
                      THEN [kind |-> "Wire", msg |-> msg, sig |-> res.value]
                      ELSE None
           /\ UNCHANGED <<mutated, verArgs, verRes, aeadVars, deriveVars, extVars>>

\* One bit of the message changes before it is verified.
MutateMsg ==
    /\ wire # None
    /\ mutated = None
    /\ verArgs = None
    /\ \E pos \in 0..(Len(wire.msg) - 1), bit \in 0..7 :
          /\ wire' = [wire EXCEPT !.msg = FlipAt(wire.msg, pos, bit)]
          /\ mutated' = [kind |-> "Msg", pos |-> pos, bit |-> bit]
    /\ UNCHANGED <<sigArgs, sigRes, verArgs, verRes, aeadVars, deriveVars, extVars>>

\* One bit of the signature changes before it is verified.
MutateSig ==
    /\ wire # None
    /\ mutated = None
    /\ verArgs = None
    /\ \E pos \in 0..(Len(wire.sig) - 1), bit \in 0..7 :
          /\ wire' = [wire EXCEPT !.sig = FlipAt(wire.sig, pos, bit)]
          /\ mutated' = [kind |-> "Sig", pos |-> pos, bit |-> bit]
    /\ UNCHANGED <<sigArgs, sigRes, verArgs, verRes, aeadVars, deriveVars, extVars>>

\* The receiver verifies what it got under the signer's public key and the
\* digest the signer used.
VerifyWire ==
    /\ wire # None
    /\ verArgs = None
    /\ LET pk == PublicOf(sigArgs.skey)
       IN /\ verArgs' = [kind |-> "Wire", skey |-> pk, dgst |-> sigArgs.dgst,
                         msg |-> wire.msg, sign |-> wire.sig]
          /\ verRes' = verify_signature(pk, sigArgs.dgst, wire.msg, wire.sig)
    /\ UNCHANGED <<sigArgs, sigRes, wire, mutated, aeadVars, deriveVars, extVars>>

\* A caller verifies a message and a signature of its own making.
VerifyDirect ==
    /\ sigArgs = None \/ sigRes.kind = "Err"
    /\ verArgs = None
    /\ \E skey \in (IF sigArgs = None THEN AllKeys ELSE {sigArgs.skey}),
          dgst \in DigestAlgs, msg \in ShortDatas,
          sign \in {<<>>, <<48, 0>>, <<1, 2, 3>>} :
          /\ verArgs' = [kind |-> "Direct", skey |-> PublicOf(skey), dgst |-> dgst,
                         msg |-> msg, sign |-> sign]
          /\ verRes' = verify_signature(PublicOf(skey), dgst, msg, sign)
    /\ UNCHANGED <<sigArgs, sigRes, wire, mutated, aeadVars, deriveVars, extVars>>

NextSign == Sign \/ MutateMsg \/ MutateSig \/ VerifyWire \/ VerifyDirect

SpecSign == Init /\ [][NextSign]_vars

\* A caller computes a keyed hash: calculate_hmac(hmac_key, dgst, msg).
Hmac ==
    \E k \in AllKeys \cup HmacKeys, dgst \in DigestAlgs, msg \in Datas,
       provOk \in BOOLEAN :
        /\ hmacArgs = None
        /\ hmacArgs' = [kind |-> "Args", hmac_key |-> k, dgst |-> dgst, msg |-> msg]
        /\ hmacRes' = calculate_hmac(k, dgst, msg, provOk)
        /\ UNCHANGED <<aeadVars, deriveVars, signVars, storeVars, tmpVars, threadVars>>

NextHmac == Hmac

SpecHmac == Init /\ [][NextHmac]_vars

\* A caller hashes a list of add-secret requests: secret_store_hash(asrcbs, locked).
StoreHash ==
    \E asrcbs \in BoundedSeq(Paths, MaxBlobs), locked \in BOOLEAN, hashOk \in BOOLEAN :
        /\ hashArgs = None
        /\ chkArgs = None
        /\ hashArgs' = [kind |-> "Args", asrcbs |-> asrcbs, locked |-> locked]
        /\ hashRes' = secret_store_hash(asrcbs, locked, hashOk)
        /\ UNCHANGED <<chkArgs, chkRes, aeadVars, deriveVars, signVars, hmacVars, tmpVars, threadVars>>

\* The attestation check runs: secret_store_check(opt, att_res).
StoreCheck ==
    \E secret \in BoundedSeq(Paths, MaxBlobs),
       lockedOpt \in {None, Some(TRUE), Some(FALSE)}, hashOk \in BOOLEAN :
        \E att_res \in AttResults(secret) :
            LET opt == [secret_store_locked |-> lockedOpt, secret |-> secret]
            IN /\ hashArgs = None
               /\ chkArgs = None
               /\ chkArgs' = [kind |-> "Args", opt |-> opt, att_res |-> att_res]
               /\ chkRes' = secret_store_check(opt, att_res, hashOk)
               /\ UNCHANGED <<hashArgs, hashRes, aeadVars, deriveVars, signVars, hmacVars, tmpVars, threadVars>>

NextStore == StoreHash \/ StoreCheck

SpecStore == Init /\ [][NextStore]_vars

\* A caller creates a temporary directory: TemporaryDirectory::with_prefix.
TmpCreate ==
    \E i \in Calls, osOk \in BOOLEAN :
        /\ tmpOwner[i] = None
        /\ LET r == with_prefix(i, osOk)
           IN /\ tmpOwner' = [tmpOwner EXCEPT ![i] =
                                 IF r.kind = "Ok"
                                 THEN [kind |-> "Owned", self |-> r.self]
                                 ELSE [kind |-> "Failed", err |-> r.err]]
              /\ tmpFs' = IF r.kind = "Ok" THEN tmpFs \cup {r.self.path} ELSE tmpFs
        /\ UNCHANGED <<tmpRemoves, tmpRet, aeadVars, deriveVars, signVars,
                       hmacVars, storeVars, threadVars>>

\* The owner calls close() on its directory.
TmpClose ==
    \E i \in Calls, osOk \in BOOLEAN, osOk2 \in BOOLEAN :
        /\ tmpOwner[i] # None
        /\ tmpOwner[i].kind = "Owned"
        /\ LET r == close(tmpOwner[i].self, tmpFs, tmpRemoves, osOk, osOk2)
           IN /\ tmpFs' = r.fs
              /\ tmpRemoves' = r.log
              /\ tmpRet' = [tmpRet EXCEPT ![i] = r.ret]
        /\ tmpOwner' = [tmpOwner EXCEPT ![i] = [kind |-> "Closed"]]
        /\ UNCHANGED <<aeadVars, deriveVars, signVars, hmacVars, storeVars, threadVars>>

\* The owner goes out of scope: the destructor runs.
TmpDrop ==
    \E i \in Calls, osOk \in BOOLEAN :
        /\ tmpOwner[i] # None
        /\ tmpOwner[i].kind = "Owned"
        /\ LET r == drop(tmpOwner[i].self, tmpFs, tmpRemoves, osOk)
           IN /\ tmpFs' = r.fs
              /\ tmpRemoves' = r.log
        /\ tmpOwner' = [tmpOwner EXCEPT ![i] = [kind |-> "Dropped"]]
        /\ UNCHANGED <<tmpRet, aeadVars, deriveVars, signVars, hmacVars, storeVars, threadVars>>

NextTmp == TmpCreate \/ TmpClose \/ TmpDrop

SpecTmp == Init /\ [][NextTmp]_vars

\* Thread t enters an operation: the provider runs and queues its error
\* details on the thread's queue.
ThreadBegin ==
    \E t \in Threads, c \in ThreadCalls :
        /\ tpc[t] = None
        /\ tcount[t] < MaxCalls
        /\ tpc' = [tpc EXCEPT ![t] = c]
        /\ tcount' = [tcount EXCEPT ![t] = @ + 1]
        /\ tprev' = [tprev EXCEPT ![t] =
                        IF tlast[t] = None THEN "none" ELSE QueueUse(tlast[t].call)]
        /\ tlast' = [tlast EXCEPT ![t] = None]
        /\ errq' = [errq EXCEPT ![t] = @ \o ProviderQueues(c)]
        /\ UNCHANGED <<aeadVars, deriveVars, signVars, hmacVars, storeVars, tmpVars>>

\* Thread t leaves the operation: the binding reads the thread's queue and the
\* operation returns.
ThreadEnd ==
    \E t \in Threads :
        /\ tpc[t] # None
        /\ tlast' = [tlast EXCEPT ![t] =
                        [call |-> tpc[t], outcome |-> CallOutcome(tpc[t], errq[t])]]
        /\ errq' = [errq EXCEPT ![t] = QueueAfter(tpc[t], @)]
        /\ tpc' = [tpc EXCEPT ![t] = None]
        /\ UNCHANGED <<tprev, tcount, aeadVars, deriveVars, signVars, hmacVars,
                       storeVars, tmpVars>>

NextThreads == ThreadBegin \/ ThreadEnd

SpecThreads == Init /\ [][NextThreads]_vars

Next == NextAead \/ NextDerive \/ NextSign \/ NextHmac \/ NextStore \/ NextTmp \/ NextThreads

Spec == Init /\ [][Next]_vars

\* ================================================================= claims

\* C1: decrypt_aes_gcm, called with the key and iv of an encryption and with
\* the aad, ciphertext and tag segments sliced out of the untouched buffer
\* encrypt_aes_gcm returned, succeeds and returns exactly the plaintext.
RoundTrip ==
    (decArgs.kind = "Sliced" /\ flipped = None)
        => (decRes.kind = "Ok" /\ decRes.value = encArgs.conf)

RoundTripWitness ==
    /\ decArgs.kind = "Sliced"
    /\ flipped = None
    /\ Len(encArgs.conf) >= 2
    /\ Len(encArgs.aad) >= 1
    /\ decRes.kind = "Ok"

\* C2: after one bit of the ciphertext segment or of the tag segment is
\* flipped, decrypt_aes_gcm fails with GcmTagMismatch (not Crypto) and hands
\* out no plaintext.
TamperDetected ==
    (decArgs.kind = "Sliced" /\ flipped # None)
        => /\ decRes.kind = "Err"
           /\ decRes.err = "GcmTagMismatch"
           /\ "value" \notin DOMAIN decRes

TamperDetectedWitness ==
    /\ decArgs.kind = "Sliced"
    /\ flipped # None
    /\ flipped.pos >= encRes.encr_range.start
    /\ flipped.pos < encRes.encr_range.end
    /\ flipped.bit = 7
    /\ decRes.kind = "Err"

\* C3: the ranges of every encryption result partition its buffer in the order
\* aad, ciphertext, tag; the tag range is 16 bytes long, the ciphertext range
\* as long as the plaintext, the aad range as long as the aad and holding the
\* aad; nothing else is in the buffer.
FramePartition ==
    encRes.kind = "Ok"
        => /\ encRes.aad_range.start = 0
           /\ encRes.aad_range.end = encRes.encr_range.start
           /\ encRes.encr_range.end = encRes.tag_range.start
           /\ encRes.tag_range.end = Len(encRes.buf)
           /\ encRes.tag_range.end - encRes.tag_range.start = 16
           /\ encRes.encr_range.end - encRes.encr_range.start = Len(encArgs.conf)
           /\ encRes.aad_range.end - encRes.aad_range.start = Len(encArgs.aad)
           /\ Slice(encRes.buf, encRes.aad_range) = encArgs.aad
           /\ Len(encRes.buf) = Len(encArgs.aad) + Len(encArgs.conf) + 16

FramePartitionWitness ==
    /\ encRes.kind = "Ok"
    /\ Len(encArgs.aad) >= 1
    /\ Len(encArgs.conf) >= 2
    /\ Len(encArgs.aad) # Len(encArgs.conf)

\* C4: with a SymKey::Aes256Xts key, encrypt_aes_gcm and decrypt_aes_gcm fail
\* with NoAeadKey whatever the other arguments are, and the provider is not
\* invoked with any cipher.
NoAeadKeyRejected ==
    /\ (encArgs # None /\ encArgs.key.variant = "Aes256Xts")
          => /\ encRes.kind = "Err"
             /\ encRes.err = "NoAeadKey"
             /\ encRes.provider = <<>>
    /\ (decArgs # None /\ decArgs.key.variant = "Aes256Xts")
          => /\ decRes.kind = "Err"
             /\ decRes.err = "NoAeadKey"
             /\ decRes.provider = <<>>
             /\ Len(decArgs.key.value) = 64

NoAeadKeyRejectedWitness ==
    /\ encArgs # None
    /\ encArgs.key.variant = "Aes256Xts"
    /\ encRes.kind = "Err"
    /\ decArgs # None
    /\ decArgs.key.variant = "Aes256Xts"
    /\ decArgs.tag = Fill(255, 16)
    /\ decRes.kind = "Err"

\* C5: when the provider's AEAD decryption fails, decrypt_aes_gcm returns
\* GcmTagMismatch exactly when the provider's error stack is empty, and
\* otherwise returns Crypto carrying that error stack.
DecryptClassification ==
    (decRes.kind = "Err" /\ decRes.provAnswer # None)
        => /\ (decRes.err = "GcmTagMismatch") <=> (decRes.provAnswer.errors = <<>>)
           /\ (decRes.provAnswer.errors # <<>>)
                 => (decRes.err = "Crypto" /\ decRes.detail = decRes.provAnswer.errors)

DecryptClassificationWitness ==
    /\ decRes.kind = "Err"
    /\ decRes.provAnswer # None
    /\ decRes.provAnswer.errors # <<>>
    /\ decRes.err = "Crypto"

\* C6: derive_aes256_gcm_key(k1, k2) returns, on success, the 32-byte SHA-256
\* digest of the raw agreement output followed by 00 00 00 01; when the
\* agreement cannot be made the provider error is returned and no key.
DeriveIsDigestOfSecretAndCounter ==
    derLast # None
        => LET k1 == derLast.k1
               k2 == derLast.k2
               r == derLast.res
           IN /\ r.kind = "Ok"
                    => /\ r.key = Digest("sha256", KeyAgreement(k1, k2) \o <<0, 0, 0, 1>>)
                       /\ Len(r.key) = 32
              /\ (~DeriveCapable(k1) \/ ~PeerCompatible(k1, k2))
                    => /\ r.kind = "Err"
                       /\ r.err = "Crypto"
                       /\ "key" \notin DOMAIN r

DeriveIsDigestWitness ==
    /\ derLast # None
    /\ derLast.res.kind = "Ok"
    /\ derLast.k2 # PublicOf(derLast.k1)
    /\ derPrev # None
    /\ derPrev.res.kind = "Err"
    /\ ~PeerCompatible(derPrev.k1, derPrev.k2)

\* C7: two successful derivations with the same arguments return the same
\* key, and so do derive(A_priv, B_pub) and derive(B_priv, A_pub).
DeriveCommutes ==
    (derLast # None /\ derPrev # None
       /\ derLast.res.kind = "Ok" /\ derPrev.res.kind = "Ok")
        => /\ (derLast.k1 = derPrev.k1 /\ derLast.k2 = derPrev.k2)
                 => derLast.res.key = derPrev.res.key
           /\ (derLast.k2 = PublicOf(derPrev.k1) /\ derPrev.k2 = PublicOf(derLast.k1))
                 => derLast.res.key = derPrev.res.key

DeriveCommutesWitness ==
    /\ derLast # None
    /\ derPrev # None
    /\ derLast.res.kind = "Ok"
    /\ derPrev.res.kind = "Ok"
    /\ derLast.k1 # derPrev.k1
    /\ derLast.k2 = PublicOf(derPrev.k1)
    /\ derPrev.k2 = PublicOf(derLast.k1)
    /\ derLast.res.key = derPrev.res.key

\* C8: after derive_aes256_gcm_key returned, normally or with an error, no
\* block it released still holds the raw shared secret, and a derived key or
\* a decrypted plaintext is held in a Confidential.
SecretZeroedOnRelease ==
    /\ (derLast # None /\ derLast.res.secret # <<>>)
          => /\ \A i \in 1..Len(derLast.res.released) :
                   SubSeq(derLast.res.released[i], 1, Len(derLast.res.secret))
                       # derLast.res.secret
             /\ derLast.res.kind = "Ok" => derLast.res.holder = "Confidential"
    /\ decRes.kind = "Ok" => decRes.holder = "Confidential"

\* C9 as stated: for EC and RSA keys, verification against a mutated message
\* or a mutated signature returns Ok(false), never an error.
MutatedAlwaysOkFalse ==
    (verArgs.kind = "Wire" /\ mutated # None)
        => verRes.out = [kind |-> "Ok", value |-> FALSE]

\* C9 as amended: for EC and RSA keys, verification against a mutated message,
\* or a mutated signature the provider can still decode, returns Ok(false); a
\* mutated EC signature whose DER frame is broken returns the provider's
\* error; a mutated message or signature is never accepted, and an error is
\* returned only when the key is unsupported or the provider could not run
\* the verification.
VerdictOrError ==
    /\ (verArgs.kind = "Wire" /\ mutated # None)
          => /\ verRes.out # [kind |-> "Ok", value |-> TRUE]
             /\ (mutated.kind = "Msg" \/ verArgs.skey.id = "RSA"
                   \/ DerWellFormed(verArgs.sign))
                   => verRes.out = [kind |-> "Ok", value |-> FALSE]
             /\ (mutated.kind = "Sig" /\ verArgs.skey.id = "EC"
                   /\ ~DerWellFormed(verArgs.sign))
                   => /\ verRes.out.kind = "Err"
                      /\ verRes.out.err = "Crypto"
                      /\ verRes.out.detail # <<>>
    /\ (verArgs # None /\ verRes.kind = "Err")
          => \/ /\ verArgs.skey.id \notin {"EC", "RSA"}
                /\ verRes.out.err = "UnsupportedVerificationKey"
             \/ /\ verArgs.skey.id \in {"EC", "RSA"}
                /\ verRes.provAnswer # None
                /\ ~verRes.provAnswer.ok
                /\ verRes.out.err = "Crypto"
                /\ verRes.out.detail = verRes.provAnswer.errors

VerdictOrErrorWitness ==
    /\ verArgs.kind = "Wire"
    /\ mutated # None
    /\ mutated.kind = "Sig"
    /\ verArgs.skey.id = "EC"
    /\ Len(verArgs.msg) >= 1
    /\ DerWellFormed(verArgs.sign)
    /\ verRes.out = [kind |-> "Ok", value |-> FALSE]

\* C10: a signature sign_msg produced under an EC or an RSA key, for any
\* digest and message, is accepted by verify_signature under the matching key:
\* Ok(true).
SignVerifyRoundTrip ==
    (verArgs.kind = "Wire" /\ mutated = None)
        => verRes.out = [kind |-> "Ok", value |-> TRUE]

SignVerifyRoundTripWitness ==
    /\ verArgs.kind = "Wire"
    /\ mutated = None
    /\ verArgs.skey.id = "RSA"
    /\ verArgs.dgst = "sha512"
    /\ Len(verArgs.msg) >= 2
    /\ verRes.out = [kind |-> "Ok", value |-> TRUE]

\* C11: sign_msg and verify_signature choose by the key's family alone: an EC
\* key signs and verifies with no padding configured, an RSA key with
\* PKCS1_PSS, and a key of any other family fails with UnsupportedSigningKey
\* or UnsupportedVerificationKey without the provider being invoked.
ClosedSetDispatch ==
    /\ sigArgs # None
          => IF sigArgs.skey.id \in {"EC", "RSA"}
             THEN /\ sigRes.kind = "Ok"
                  /\ sigRes.provider = <<sigArgs.skey.id>>
                  /\ \E n \in Nonces :
                        sigRes.value =
                            ProviderSign(sigArgs.skey, sigArgs.dgst,
                                         IF sigArgs.skey.id = "RSA" THEN "PKCS1_PSS"
                                         ELSE "default",
                                         n, sigArgs.msg).sig
             ELSE /\ sigRes.kind = "Err"
                  /\ sigRes.err = "UnsupportedSigningKey"
                  /\ sigRes.provider = <<>>
    /\ verArgs # None
          => IF verArgs.skey.id \in {"EC", "RSA"}
             THEN /\ verRes.provider = <<verArgs.skey.id>>
                  /\ verRes.provAnswer =
                        ProviderVerify(verArgs.skey, verArgs.dgst,
                                       IF verArgs.skey.id = "RSA" THEN "PKCS1_PSS"
                                       ELSE "default",
                                       verArgs.msg, verArgs.sign)
             ELSE /\ verRes.kind = "Err"
                  /\ verRes.out.err = "UnsupportedVerificationKey"
                  /\ verRes.provider = <<>>
                  /\ verRes.provAnswer = None

ClosedSetDispatchWitness ==
    /\ sigArgs # None
    /\ sigArgs.skey.id = "HMAC"
    /\ sigRes.kind = "Err"
    /\ verArgs # None
    /\ verArgs.skey.id = "HMAC"
    /\ verRes.kind = "Err"

\* C12: calculate_hmac computes a tag only under a key typed HMAC: for a key
\* of any other type it fails with UnsupportedSigningKey, without a tag and
\* without invoking the provider; for an HMAC key it returns the provider's
\* keyed hash of the message or the provider's error.
HmacRequiresHmacKey ==
    hmacArgs # None
        => IF hmacArgs.hmac_key.id = "HMAC"
           THEN \/ /\ hmacRes.kind = "Ok"
                   /\ hmacRes.value =
                         ProviderHmac(hmacArgs.hmac_key, hmacArgs.dgst,
                                      hmacArgs.msg, TRUE).tag
                \/ /\ hmacRes.kind = "Err"
                   /\ hmacRes.err = "Crypto"
                   /\ hmacRes.detail =
                         ProviderHmac(hmacArgs.hmac_key, hmacArgs.dgst,
                                      hmacArgs.msg, FALSE).errors
           ELSE /\ hmacRes.kind = "Err"
                /\ hmacRes.err = "UnsupportedSigningKey"
                /\ hmacRes.provider = <<>>
                /\ "value" \notin DOMAIN hmacRes

HmacRequiresHmacKeyWitness ==
    /\ hmacArgs # None
    /\ hmacArgs.hmac_key.id = "RSA"
    /\ Len(hmacArgs.msg) >= 1
    /\ hmacRes.kind = "Err"

\* Whether request i of the list can be read and holds a tag.
BlobUsable(path) == read_file(path).ok /\ bin_tag(read_file(path).data).ok

\* The error of a request that is not usable.
BlobError(path) ==
    IF ~read_file(path).ok THEN read_file(path).err
    ELSE bin_tag(read_file(path).data).err

\* tag(blob_1) || ... || tag(blob_n) of a list of usable requests.
RECURSIVE TagsInOrder(_)
TagsInOrder(paths) ==
    IF paths = <<>> THEN <<>>
    ELSE bin_tag(read_file(paths[1]).data).tag \o TagsInOrder(Tail(paths))

\* C13: secret_store_hash returns the SHA-512 digest of the requests' tags in
\* input order followed by exactly one byte, 1 if locked and 0 if not; the
\* digest is 64 bytes long and differs from the digest under the other flag
\* value; when a request cannot be read or holds no tag the call fails with
\* the error of the first such request and returns no digest.
StoreHashLayout ==
    hashArgs # None
        => LET asrcbs == hashArgs.asrcbs
               bad == {i \in 1..Len(asrcbs) : ~BlobUsable(asrcbs[i])}
               b == IF hashArgs.locked THEN 1 ELSE 0
           IN IF bad = {}
              THEN \/ /\ hashRes.kind = "Ok"
                      /\ hashRes.digest =
                            Digest("sha512", TagsInOrder(asrcbs) \o <<b>>)
                      /\ Len(hashRes.digest) = 64
                      /\ hashRes.digest #
                            Digest("sha512", TagsInOrder(asrcbs) \o <<1 - b>>)
                      /\ hashRes.reads = asrcbs
                   \/ /\ hashRes.kind = "Err"
                      /\ hashRes.err = "Crypto"
              ELSE LET first == CHOOSE i \in bad : \A j \in bad : i <= j
                   IN /\ hashRes.kind = "Err"
                      /\ hashRes.err = BlobError(asrcbs[first])
                      /\ "digest" \notin DOMAIN hashRes

StoreHashLayoutWitness ==
    /\ hashArgs # None
    /\ hashArgs.asrcbs = <<"b.bin", "a.bin">>
    /\ ~hashArgs.locked
    /\ hashRes.kind = "Ok"

\* C15: secret_store_check returns CheckState::None, without reading a request
\* or the attestation result, when secret_store_locked is absent; it fails
\* the secret-store check when the option is present and the attestation result carries
\* no secret-store hash, and when the computed hash differs from the attested
\* one; it returns CheckState::Data, with the same request list and locked
\* flag, only when the two digests are equal.
StoreCheckOutcomes ==
    chkArgs # None
        => LET opt == chkArgs.opt
               att == AttStoreHash(chkArgs.att_res)
           IN IF opt.secret_store_locked = None
              THEN /\ chkRes.kind = "Ok"
                   /\ chkRes.state = "None"
                   /\ chkRes.reads = <<>>
                   /\ ~chkRes.attRead
              ELSE LET locked == opt.secret_store_locked.value
                       calc == secret_store_hash(opt.secret, locked, TRUE)
                   IN /\ att = None => chkRes.kind = "CheckFailed"
                      /\ (att # None /\ calc.kind = "Ok"
                            /\ \E i \in 1..64 : calc.digest[i] # att.value[i])
                            => chkRes.kind \in {"CheckFailed", "Err"}
                      /\ (chkRes.kind = "Ok")
                            => /\ chkRes.state = "Data"
                               /\ att # None
                               /\ calc.kind = "Ok"
                               /\ \A i \in 1..64 : calc.digest[i] = att.value[i]
                               /\ chkRes.add_secret_requests = opt.secret
                               /\ chkRes.locked = locked

StoreCheckOutcomesWitness ==
    /\ chkArgs # None
    /\ chkArgs.opt.secret_store_locked = Some(TRUE)
    /\ Len(chkArgs.opt.secret) = 2
    /\ AttStoreHash(chkArgs.att_res) # None
    /\ chkRes.kind = "CheckFailed"
    /\ chkRes.reads = chkArgs.opt.secret

\* C16: every directory a successful with_prefix created sees exactly one
\* remove_dir_all once its owner closed or dropped it, and none before; after
\* close() no destructor removal follows, whatever close() returned; close()
\* returns the result of that removal, a drop returns nothing; a failed
\* with_prefix creates no directory, leaves no owner and triggers no removal.
TmpRemovedOnce ==
    \A i \in Calls :
        /\ Len(tmpRemoves[i]) <= 1
        /\ tmpOwner[i] = None => i \notin tmpFs /\ tmpRemoves[i] = <<>>
        /\ tmpOwner[i] # None =>
            /\ tmpOwner[i].kind = "Failed"
                  => i \notin tmpFs /\ tmpRemoves[i] = <<>> /\ tmpRet[i] = None
            /\ tmpOwner[i].kind = "Owned"
                  => i \in tmpFs /\ tmpRemoves[i] = <<>> /\ tmpRet[i] = None
            /\ tmpOwner[i].kind = "Closed"
                  => /\ Len(tmpRemoves[i]) = 1
                     /\ tmpRet[i] = tmpRemoves[i][1]
                     /\ (tmpRet[i] = "Ok") <=> (i \notin tmpFs)
            /\ tmpOwner[i].kind = "Dropped"
                  => /\ Len(tmpRemoves[i]) = 1
                     /\ tmpRet[i] = None
                     /\ (tmpRemoves[i][1] = "Ok") <=> (i \notin tmpFs)

TmpRemovedOnceWitness ==
    \E i, j, k \in Calls :
        /\ tmpOwner[i] # None /\ tmpOwner[i].kind = "Closed" /\ tmpRet[i] = "Err"
        /\ tmpOwner[j] # None /\ tmpOwner[j].kind = "Dropped" /\ j \in tmpFs
        /\ tmpOwner[k] # None /\ tmpOwner[k].kind = "Failed"

\* C14: whatever a thread ran before and whatever the other thread is running,
\* every completed call returned exactly what the operation returns for its
\* own arguments (a decrypt with a tag that does not verify is GcmTagMismatch,
\* one the provider could not run is a provider error), and between calls a
\* thread's provider error queue is empty.
OutcomeFromArgumentsOnly ==
    \A t \in Threads :
        /\ tlast[t] # None => tlast[t].outcome = CallResult(tlast[t].call)
        /\ tpc[t] = None => errq[t] = <<>>

OutcomeFromArgumentsOnlyWitness ==
    \E t, u \in Threads :
        /\ t # u
        /\ tprev[t] = "refused"
        /\ tlast[t] # None
        /\ tlast[t].call = DecryptCall(TKey, <<9>>, FlipAt(TTag, 0, 0))
        /\ tlast[t].outcome.err = "GcmTagMismatch"
        /\ tpc[u] # None
        /\ errq[u] # <<>>

====
